---- MODULE Spec2Model ----
(***************************************************************************)
(* StrongSocket (src/src/index.ts): a reconnecting wrapper around a        *)
(* WebSocket.  The wrapper's fields are the variables; the transport is a  *)
(* sequence of handles, each with its readyState, the payloads it was      *)
(* given and the arguments of the last close() it was asked.               *)
(***************************************************************************)
EXTENDS Integers, Sequences, FiniteSets, TLC

\* ---------------------------------------------------------------- bounds
MaxHandles == 2      \* handles `new WebSocket` may create in one behaviour
MaxSends == 3        \* calls of send() in one behaviour
MaxRegistrations == 2    \* registered listeners plus on<type> fields set at once

\* ------------------------------------------------------------- constants
CONNECTING == 0
OPEN == 1
CLOSING == 2
CLOSED == 3

\* JavaScript's Infinity: larger than every counter the model can reach.
Infinity == 1000000
DefaultReconnectionDelay == 1000

\* Options the wrapper may be constructed with (defaults already applied):
\* the defaults, reconnection switched off, and small finite limits.
DefaultOptions ==
    [reconnection |-> TRUE, reconnectionDelay |-> DefaultReconnectionDelay,
     reconnectionAttempts |-> Infinity, messageQueueSize |-> Infinity]
OptionsValues ==
    {DefaultOptions,
     [reconnection |-> FALSE, reconnectionDelay |-> DefaultReconnectionDelay,
      reconnectionAttempts |-> 1, messageQueueSize |-> 1],
     [reconnection |-> TRUE, reconnectionDelay |-> 50,
      reconnectionAttempts |-> 0, messageQueueSize |-> 2]}
\* Codes the caller passes to close(code).
CloseCodes == {"4000"}
\* The keys of this._listeners and the on<type> fields.
EventTypes == {"open", "close", "error", "message"}
\* Functions the caller registers with addEventListener.
ListenerFns == {1, 2}
\* Functions the caller assigns to onopen, onclose, onerror, onmessage.
PrimaryFns == {3}

VARIABLES
    options,        \* this._options
    ws,             \* this._ws: index into socks, 0 = undefined
    socks,          \* every WebSocket created so far
    owned,          \* handles the wrapper's own listeners are bound to
    retryCount,     \* this._retryCount
    connectLock,    \* this._connectLock
    closeCalled,    \* this._closeCalled
    messageQueue,   \* this._messageQueue
    timers,         \* pending setTimeout callbacks of _wait(), in firing order
    listeners,      \* this._listeners: event type -> registered functions
    primary,        \* onopen, onclose, onerror, onmessage: 0 = null
    calls,          \* the functions the latest operation or event invoked, in order
    sendCount,      \* number of send() calls so far; the n-th payload is n
    userClosed,     \* history: number of handles when close() last hit an OPEN handle
    errAfterClose,  \* history: an error event was handled after that close()
    closeInWait,    \* history: close() was called during the latest wait
    flushed,        \* history: number of payloads the latest open event flushed
    lastCause       \* history: who started the attempt whose wait resolved last

vars == <<options, ws, socks, owned, retryCount, connectLock, closeCalled,
          messageQueue, timers, listeners, primary, calls, sendCount, userClosed, errAfterClose, closeInWait,
          flushed, lastCause>>

\* The wrapper's mutable fields (and the transport) as one record.
Cur ==
    [ws |-> ws, socks |-> socks, owned |-> owned, retryCount |-> retryCount,
     connectLock |-> connectLock, closeCalled |-> closeCalled,
     messageQueue |-> messageQueue, timers |-> timers,
     listeners |-> listeners, primary |-> primary, calls |-> calls]

\* An operation or event starts with nothing invoked yet.
Begin(s) == [s EXCEPT !.calls = <<>>]

Apply(s) ==
    /\ ws' = s.ws
    /\ socks' = s.socks
    /\ owned' = s.owned
    /\ retryCount' = s.retryCount
    /\ connectLock' = s.connectLock
    /\ closeCalled' = s.closeCalled
    /\ messageQueue' = s.messageQueue
    /\ timers' = s.timers
    /\ listeners' = s.listeners
    /\ primary' = s.primary
    /\ calls' = s.calls

\* ------------------------------------------------------------- transport
NewSocket ==
    [readyState |-> CONNECTING, closeFired |-> FALSE, received |-> <<>>,
     closeArg |-> "none", sentWhileNotOpen |-> FALSE]

\* WebSocket.close(code): CONNECTING/OPEN -> CLOSING, otherwise no change.
SockClose(sock, arg) ==
    [sock EXCEPT !.closeArg = arg,
                 !.readyState = IF @ \in {CONNECTING, OPEN} THEN CLOSING ELSE @]

\* WebSocket.send(data); the handle remembers a send() made while it was not OPEN.
SockSend(sock, data) ==
    [sock EXCEPT !.received = Append(@, data),
                 !.sentWhileNotOpen = @ \/ sock.readyState # OPEN]

\* -------------------------------------------------------------- wrapper
GetDelay(n) ==
    IF n = 0 THEN 0 ELSE options.reconnectionDelay

RemoveOwnListenersSkip(s) == s

RemoveOwnListeners(s) ==
    IF s.ws = 0 THEN s ELSE [s EXCEPT !.owned = @ \ {s.ws}]

AddOwnListeners(s) ==
    IF s.ws = 0 THEN s ELSE [s EXCEPT !.owned = @ \cup {s.ws}]

ConnectIncrementFirst(s, cause) ==
    IF s.connectLock
    THEN s
    ELSE LET s1 == [s EXCEPT !.connectLock = TRUE, !.retryCount = @ + 1] IN
         IF s1.retryCount > options.reconnectionAttempts
         THEN s1
         ELSE LET s3 == RemoveOwnListeners(s1)
              IN [s3 EXCEPT !.timers =
                     Append(@, [cause |-> cause, delay |-> GetDelay(s3.retryCount)])]

ConnectKeepListeners(s, cause) ==
    IF s.connectLock
    THEN s
    ELSE LET s1 == [s EXCEPT !.connectLock = TRUE] IN
         IF s1.retryCount > options.reconnectionAttempts
         THEN s1
         ELSE LET s2 == [s1 EXCEPT !.retryCount = @ + 1]
              IN [s2 EXCEPT !.timers =
                     Append(@, [cause |-> cause, delay |-> GetDelay(s2.retryCount)])]

\* _connect(); cause records who called it.
Connect(s, cause) ==
    IF s.connectLock
    THEN s
    ELSE LET s1 == [s EXCEPT !.connectLock = TRUE] IN
         IF s1.retryCount > options.reconnectionAttempts
         THEN s1
         ELSE LET s2 == [s1 EXCEPT !.retryCount = @ + 1]
                  s3 == RemoveOwnListeners(s2)
              IN [s3 EXCEPT !.timers =
                     Append(@, [cause |-> cause, delay |-> GetDelay(s3.retryCount)])]

\* The callback of this._wait().then(...) in _connect.
AfterWaitNoCheck(s) ==
    LET s1 == [s EXCEPT !.socks = Append(@, NewSocket)]
        s2 == [s1 EXCEPT !.ws = Len(s1.socks)]
        s3 == [s2 EXCEPT !.connectLock = FALSE]
    IN AddOwnListeners(s3)

AfterWait(s) ==
    IF s.closeCalled
    THEN s
    ELSE LET s1 == [s EXCEPT !.socks = Append(@, NewSocket)]
             s2 == [s1 EXCEPT !.ws = Len(s1.socks)]
             s3 == [s2 EXCEPT !.connectLock = FALSE]
         IN AddOwnListeners(s3)

ReconnectKeepCloseCalled(s) ==
    LET s1 == [s EXCEPT !.retryCount = 0] IN
    IF s1.ws = 0 \/ s1.socks[s1.ws].readyState = CLOSED
    THEN Connect(s1, "error")
    ELSE LET s2 == RemoveOwnListeners(s1)
             s3 == [s2 EXCEPT !.socks[s2.ws] = SockClose(@, "undefined")]
         IN Connect(s3, "error")

ReconnectNoClose(s) ==
    LET s1 == [s EXCEPT !.closeCalled = FALSE, !.retryCount = 0] IN
    IF s1.ws = 0 \/ s1.socks[s1.ws].readyState = CLOSED
    THEN Connect(s1, "error")
    ELSE Connect(RemoveOwnListeners(s1), "error")

\* _reconnect() (only ever called without code and reason)
Reconnect(s) ==
    LET s1 == [s EXCEPT !.closeCalled = FALSE, !.retryCount = 0] IN
    IF s1.ws = 0 \/ s1.socks[s1.ws].readyState = CLOSED
    THEN Connect(s1, "error")
    ELSE LET s2 == RemoveOwnListeners(s1)
             s3 == [s2 EXCEPT !.socks[s2.ws] = SockClose(@, "undefined")]
         IN Connect(s3, "error")

CloseNoFlag(s, code) ==
    IF s.ws = 0 THEN s
    ELSE [s EXCEPT !.socks[s.ws] = SockClose(@, code)]

\* close(code, reason)
Close(s, code) ==
    LET s1 == [s EXCEPT !.closeCalled = TRUE] IN
    IF s1.ws = 0 THEN s1
    ELSE [s1 EXCEPT !.socks[s1.ws] = SockClose(@, code)]

SendIgnoringState(s, data) ==
    IF s.ws # 0
    THEN [s EXCEPT !.socks[s.ws] = SockSend(@, data)]
    ELSE IF Len(s.messageQueue) < options.messageQueueSize
         THEN [s EXCEPT !.messageQueue = Append(@, data)]
         ELSE s

SendOffByOne(s, data) ==
    IF s.ws # 0 /\ s.socks[s.ws].readyState = OPEN
    THEN [s EXCEPT !.socks[s.ws] = SockSend(@, data)]
    ELSE IF Len(s.messageQueue) <= options.messageQueueSize
         THEN [s EXCEPT !.messageQueue = Append(@, data)]
         ELSE s

SendDropsOldest(s, data) ==
    IF s.ws # 0 /\ s.socks[s.ws].readyState = OPEN
    THEN [s EXCEPT !.socks[s.ws] = SockSend(@, data)]
    ELSE IF Len(s.messageQueue) < options.messageQueueSize
         THEN [s EXCEPT !.messageQueue = Append(@, data)]
         ELSE [s EXCEPT !.messageQueue = Append(Tail(@), data)]

\* send(data)
Send(s, data) ==
    IF s.ws # 0 /\ s.socks[s.ws].readyState = OPEN
    THEN [s EXCEPT !.socks[s.ws] = SockSend(@, data)]
    ELSE IF Len(s.messageQueue) < options.messageQueueSize
         THEN [s EXCEPT !.messageQueue = Append(@, data)]
         ELSE s

\* The flush loop of _handleOpen: this._ws.send(message) for each message.
RECURSIVE FlushReversed(_, _)
FlushReversed(sock, queue) ==
    IF queue = <<>> THEN sock
    ELSE SockSend(FlushReversed(sock, Tail(queue)), Head(queue))

RECURSIVE Flush(_, _)
Flush(sock, queue) ==
    IF queue = <<>> THEN sock
    ELSE Flush(SockSend(sock, Head(queue)), Tail(queue))

\* `for (const listener of list) listener.call(this._ws, ev)`
RECURSIVE CallEachReversed(_, _, _)
CallEachReversed(log, type, list) ==
    IF list = <<>> THEN log
    ELSE Append(CallEachReversed(log, type, Tail(list)),
                [slot |-> "listener", type |-> type, fn |-> Head(list)])

RECURSIVE CallEach(_, _, _)
CallEach(log, type, list) ==
    IF list = <<>> THEN log
    ELSE CallEach(Append(log, [slot |-> "listener", type |-> type, fn |-> Head(list)]),
                  type, Tail(list))

\* `if (this.on<type>) this.on<type>.call(this._ws, ev)` and then the loop
\* over this._listeners.<type>, as each of the four handlers does.
Dispatch(s, type) ==
    LET first == IF s.primary[type] # 0
                 THEN <<[slot |-> "on", type |-> type, fn |-> s.primary[type]]>>
                 ELSE <<>>
    IN [s EXCEPT !.calls = CallEach(first, type, s.listeners[type])]

\* addEventListener(type, listener)
AddEventListener(s, type, fn) ==
    [s EXCEPT !.listeners[type] = Append(@, fn)]

\* removeEventListener(type, listener)
RemoveEventListener(s, type, fn) ==
    [s EXCEPT !.listeners[type] = SelectSeq(@, LAMBDA l : l # fn)]

\* dispatchEvent(ev) with ev.type = type
DispatchEvent(s, type) ==
    [s EXCEPT !.calls = CallEach(<<>>, type, s.listeners[type])]

HandleOpenKeepQueue(s) ==
    LET s1 == [s EXCEPT !.retryCount = 0]
        s2 == [s1 EXCEPT !.socks[s1.ws] = Flush(@, s1.messageQueue)]
    IN Dispatch(s2, "open")

HandleOpenKeepRetry(s) ==
    LET s1 == [s EXCEPT !.socks[s.ws] = Flush(@, s.messageQueue)]
        s2 == [s1 EXCEPT !.messageQueue = <<>>]
    IN Dispatch(s2, "open")

\* _handleOpen
HandleOpen(s) ==
    LET s1 == [s EXCEPT !.retryCount = 0]
        s2 == [s1 EXCEPT !.socks[s1.ws] = Flush(@, s1.messageQueue)]
        s3 == [s2 EXCEPT !.messageQueue = <<>>]
    IN Dispatch(s3, "open")

HandleCloseNoConnect(s) == Dispatch(s, "close")

\* _handleClose
HandleClose(s) == Connect(Dispatch(s, "close"), "close")

\* _handleError
HandleError(s) == Reconnect(Dispatch(s, "error"))

\* _handleMessage
HandleMessage(s) == Dispatch(s, "message")

\* --------------------------------------------------------------- states
Fresh ==
    [ws |-> 0, socks |-> <<>>, owned |-> {}, retryCount |-> 0,
     connectLock |-> FALSE, closeCalled |-> FALSE, messageQueue |-> <<>>,
     timers |-> <<>>, listeners |-> [t \in EventTypes |-> <<>>],
     primary |-> [t \in EventTypes |-> 0], calls |-> <<>>]

\* The state right after `new StrongSocket(url, protocols, options)`.
Init ==
    /\ options \in OptionsValues
    /\ ws = Connect(Fresh, "construct").ws
    /\ socks = Connect(Fresh, "construct").socks
    /\ owned = Connect(Fresh, "construct").owned
    /\ retryCount = Connect(Fresh, "construct").retryCount
    /\ connectLock = Connect(Fresh, "construct").connectLock
    /\ closeCalled = Connect(Fresh, "construct").closeCalled
    /\ messageQueue = Connect(Fresh, "construct").messageQueue
    /\ timers = Connect(Fresh, "construct").timers
    /\ listeners = Connect(Fresh, "construct").listeners
    /\ primary = Connect(Fresh, "construct").primary
    /\ calls = Connect(Fresh, "construct").calls
    /\ sendCount = 0
    /\ userClosed = 0
    /\ errAfterClose = FALSE
    /\ closeInWait = FALSE
    /\ flushed = 0
    /\ lastCause = "none"

\* An attempt was abandoned and nothing has replaced it: _connect returned at
\* line 189, or the callback of the wait returned at line 197; either way
\* _connectLock is left set with no wait pending.
Abandoned == connectLock /\ timers = <<>>

\* closeInWait is about the latest wait: a newly scheduled wait resets it.
WaitHistory(s) ==
    closeInWait' = IF Len(s.timers) > Len(timers) THEN FALSE ELSE closeInWait

\* -------------------------------------------------------------- actions
\* The caller calls send(data).
CallSend ==
    /\ sendCount < MaxSends
    /\ sendCount' = sendCount + 1
    /\ Apply(Send(Begin(Cur), sendCount + 1))
    /\ UNCHANGED <<options, userClosed, errAfterClose, closeInWait, flushed, lastCause>>

\* The caller calls close(code).
CallClose(code) ==
    /\ Apply(Close(Begin(Cur), code))
    /\ IF ws # 0 /\ socks[ws].readyState = OPEN
       THEN userClosed' = Len(socks) /\ errAfterClose' = FALSE
       ELSE UNCHANGED <<userClosed, errAfterClose>>
    /\ closeInWait' = (closeInWait \/ timers # <<>>)
    /\ UNCHANGED <<options, sendCount, flushed, lastCause>>

\* The timer of _wait() fires and the continuation in _connect runs.
WaitResolved ==
    /\ timers # <<>>
    /\ closeCalled \/ Len(socks) < MaxHandles
    /\ Apply(AfterWait(Begin([Cur EXCEPT !.timers = Tail(@)])))
    /\ lastCause' = Head(timers).cause
    /\ UNCHANGED <<options, sendCount, userClosed, errAfterClose, closeInWait, flushed>>

\* Handle h reports that the connection is established.
TransportOpen(h) ==
    /\ socks[h].readyState = CONNECTING
    /\ LET s == Begin([Cur EXCEPT !.socks[h].readyState = OPEN])
           t == IF h \in owned THEN HandleOpen(s) ELSE s
       IN Apply(t) /\ WaitHistory(t)
    /\ flushed' = IF h \in owned THEN Len(messageQueue) ELSE flushed
    /\ UNCHANGED <<options, sendCount, userClosed, errAfterClose, lastCause>>

\* Handle h reports an error; the transport may have closed it already.
TransportError(h) ==
    /\ ~socks[h].closeFired
    /\ socks[h].readyState # CLOSED
    /\ \E r \in {socks[h].readyState, CLOSED} :
          LET s == Begin([Cur EXCEPT !.socks[h].readyState = r])
              t == IF h \in owned THEN HandleError(s) ELSE s
          IN Apply(t) /\ WaitHistory(t)
    /\ errAfterClose' = (errAfterClose \/ (h \in owned /\ userClosed # 0))
    /\ UNCHANGED <<options, sendCount, userClosed, flushed, lastCause>>

\* Handle h reports that the connection is closed (its last event).
TransportClose(h) ==
    /\ ~socks[h].closeFired
    /\ socks[h].readyState # CONNECTING
    /\ LET s == Begin([Cur EXCEPT !.socks[h].readyState = CLOSED,
                                  !.socks[h].closeFired = TRUE])
           t == IF h \in owned THEN HandleClose(s) ELSE s
       IN Apply(t) /\ WaitHistory(t)
    /\ UNCHANGED <<options, sendCount, userClosed, errAfterClose, flushed, lastCause>>

\* Handle h delivers a message.
TransportMessage(h) ==
    /\ socks[h].readyState = OPEN
    /\ Apply(IF h \in owned THEN HandleMessage(Begin(Cur)) ELSE Begin(Cur))
    /\ UNCHANGED <<options, sendCount, userClosed, errAfterClose, closeInWait,
                   flushed, lastCause>>

\* Listeners registered plus on<type> fields set.
Registrations ==
    LET RECURSIVE Total(_)
        Total(T) == IF T = {} THEN 0
                    ELSE LET t == CHOOSE x \in T : TRUE
                         IN Len(listeners[t]) + (IF primary[t] # 0 THEN 1 ELSE 0)
                            + Total(T \ {t})
    IN Total(EventTypes)

\* The caller calls addEventListener(type, fn).
CallAddEventListener(type, fn) ==
    /\ Registrations < MaxRegistrations
    /\ Apply(AddEventListener(Begin(Cur), type, fn))
    /\ UNCHANGED <<options, sendCount, userClosed, errAfterClose, closeInWait,
                   flushed, lastCause>>

\* The caller calls removeEventListener(type, fn) for a registered function.
CallRemoveEventListener(type, fn) ==
    /\ \E i \in 1..Len(listeners[type]) : listeners[type][i] = fn
    /\ Apply(RemoveEventListener(Begin(Cur), type, fn))
    /\ UNCHANGED <<options, sendCount, userClosed, errAfterClose, closeInWait,
                   flushed, lastCause>>

\* The caller assigns on<type> = fn (0 = null).
SetPrimary(type, fn) ==
    /\ primary[type] # fn
    /\ fn # 0 => (primary[type] = 0 /\ Registrations < MaxRegistrations)
    /\ Apply([Begin(Cur) EXCEPT !.primary[type] = fn])
    /\ UNCHANGED <<options, sendCount, userClosed, errAfterClose, closeInWait,
                   flushed, lastCause>>

\* The caller calls dispatchEvent(ev) with ev.type = type.
CallDispatchEvent(type) ==
    /\ Apply(DispatchEvent(Begin(Cur), type))
    /\ UNCHANGED <<options, sendCount, userClosed, errAfterClose, closeInWait,
                   flushed, lastCause>>

Next ==
    \/ CallSend
    \/ \E code \in CloseCodes : CallClose(code)
    \/ WaitResolved
    \/ \E h \in 1..Len(socks) : TransportOpen(h)
    \/ \E h \in 1..Len(socks) : TransportError(h)
    \/ \E h \in 1..Len(socks) : TransportClose(h)

Spec == Init /\ [][Next]_vars

\* The behaviours in which the caller never calls close(); the callback of
\* setTimeout runs once its timer has expired.
NextNoCallerClose ==
    \/ CallSend
    \/ WaitResolved
    \/ \E h \in 1..Len(socks) : TransportOpen(h)
    \/ \E h \in 1..Len(socks) : TransportError(h)
    \/ \E h \in 1..Len(socks) : TransportClose(h)

SpecNoCallerClose ==
    Init /\ [][NextNoCallerClose]_vars /\ WF_vars(WaitResolved)

\* The behaviours of a wrapper constructed without options in which the
\* caller registers listeners and injects events but neither sends nor closes.
NextListeners ==
    \/ \E type \in EventTypes, fn \in ListenerFns : CallAddEventListener(type, fn)
    \/ \E type \in EventTypes, fn \in ListenerFns : CallRemoveEventListener(type, fn)
    \/ \E type \in EventTypes, fn \in PrimaryFns \cup {0} : SetPrimary(type, fn)
    \/ \E type \in EventTypes : CallDispatchEvent(type)
    \/ WaitResolved
    \/ \E h \in 1..Len(socks) : TransportOpen(h)
    \/ \E h \in 1..Len(socks) : TransportMessage(h)
    \/ \E h \in 1..Len(socks) : TransportError(h)
    \/ \E h \in 1..Len(socks) : TransportClose(h)

InitListeners == Init /\ options = DefaultOptions

SpecListeners == InitListeners /\ [][NextListeners]_vars

\* The behaviours of a wrapper that allows no reconnection attempt and queues
\* two payloads, in which the caller sends and closes at any time and, once an
\* attempt has been abandoned, also registers a function not yet registered as
\* an "error" listener, removes it and injects "error" events (these three
\* touch only _listeners and the functions invoked).
AbandonTypes == {"error"}

AbandonFns == {1}

Registered(type, fn) == \E i \in 1..Len(listeners[type]) : listeners[type][i] = fn

NextAbandon ==
    \/ CallSend
    \/ \E code \in CloseCodes : CallClose(code)
    \/ \E type \in AbandonTypes, fn \in AbandonFns :
          Abandoned /\ ~Registered(type, fn) /\ CallAddEventListener(type, fn)
    \/ \E type \in AbandonTypes, fn \in AbandonFns :
          Abandoned /\ CallRemoveEventListener(type, fn)
    \/ \E type \in AbandonTypes : Abandoned /\ CallDispatchEvent(type)
    \/ WaitResolved
    \/ \E h \in 1..Len(socks) : TransportOpen(h)
    \/ \E h \in 1..Len(socks) : TransportError(h)
    \/ \E h \in 1..Len(socks) : TransportClose(h)

InitAbandon == Init /\ options.reconnectionAttempts = 0

SpecAbandon == InitAbandon /\ [][NextAbandon]_vars

TypeOK ==
    /\ ws \in 0..Len(socks)
    /\ owned \subseteq 1..Len(socks)
    /\ retryCount \in Nat
    /\ connectLock \in BOOLEAN
    /\ closeCalled \in BOOLEAN
    /\ Len(socks) <= MaxHandles
    /\ sendCount \in 0..MaxSends

\* ---------------------------------------------------------------- claims
Handles == 1..Len(socks)
Live(h) == socks[h].readyState \in {CONNECTING, OPEN}
Increasing(q) == \A i \in 1..Len(q) : \A j \in 1..Len(q) : i < j => q[i] < q[j]
Consecutive(q) == \A i \in 1..(Len(q) - 1) : q[i + 1] = q[i] + 1
\* The step is the open event of handle h.
OpenStep(h) == socks[h].readyState = CONNECTING /\ socks'[h].readyState = OPEN
\* The step is a timer of _wait() firing.
TimerFires == Len(timers') < Len(timers)
\* The step schedules a wait.
WaitScheduled == Len(timers') > Len(timers)
\* The delay the attempt made by the constructor waits.
FreshDelay == Connect(Fresh, "construct").timers[1].delay

\* C1: payloads reach every handle in submission order; the open event hands
\* the whole queue, in order, to the handle and empties it, so the queued
\* payloads arrive before anything sent after the open (an OPEN handle never
\* coexists with a non-empty queue).
C1_FlushInOrder ==
    /\ [](\A h \in Handles : Increasing(socks[h].received))
    /\ [](\A h \in Handles : socks[h].readyState = OPEN => messageQueue = <<>>)
    /\ [][\A h \in Handles : OpenStep(h) =>
             /\ socks'[h].received = socks[h].received \o messageQueue
             /\ messageQueue' = <<>>]_vars

\* Two payloads were queued, flushed by an open event, and a third was sent
\* afterwards.
C1_Witness ==
    \E h \in Handles : flushed = 2 /\ socks[h].received = <<1, 2, 3>>

\* C2: the queue never holds more than messageQueueSize payloads, it holds
\* consecutive payloads in send order, and a send that finds it full changes
\* neither the queue nor any handle.
C2_BoundedQueue ==
    /\ [](Len(messageQueue) <= options.messageQueueSize)
    /\ [](Consecutive(messageQueue))
    /\ [][(sendCount' = sendCount + 1 /\ Len(messageQueue) = options.messageQueueSize
           /\ ~(ws # 0 /\ socks[ws].readyState = OPEN))
          => (messageQueue' = messageQueue /\ socks' = socks)]_vars

\* N + k sends were made before any handle opened; the queue is the first N.
C2_Witness ==
    /\ Len(messageQueue) = options.messageQueueSize
    /\ sendCount > Len(messageQueue)
    /\ \A h \in Handles : socks[h].received = <<>>
    /\ messageQueue = [i \in 1..options.messageQueueSize |-> i]

\* C3 (as claimed): after close() on an OPEN handle no handle is ever opened.
C3_NoHandleAfterClose ==
    userClosed # 0 => Len(socks) = userClosed

\* C3 (amended): close(code) on an OPEN handle sets Close-Requested and asks
\* the handle to close with that code; as long as no error event of the
\* handle is handled afterwards, Close-Requested stays set and no handle is
\* opened.
C3_NoHandleAfterCloseUnlessError ==
    /\ [](userClosed # 0 /\ ~errAfterClose =>
             /\ closeCalled
             /\ Len(socks) = userClosed
             /\ socks[userClosed].closeArg \in CloseCodes
             /\ socks[userClosed].readyState \in {CLOSING, CLOSED})
    /\ [][\A code \in CloseCodes :
             (CallClose(code) /\ ws # 0 /\ socks[ws].readyState = OPEN) =>
                 /\ closeCalled'
                 /\ socks'[ws].closeArg = code
                 /\ socks'[ws].readyState = CLOSING]_vars

\* close() hit an OPEN handle, its close event came, and the attempt that
\* event started was given up when its wait resolved.
C3_Witness ==
    /\ userClosed # 0 /\ ~errAfterClose
    /\ socks[userClosed].closeFired
    /\ timers = <<>> /\ connectLock /\ closeCalled

\* C4: at most one handle is CONNECTING or OPEN.
C4_OneLiveHandle ==
    Cardinality({h \in Handles : Live(h)}) <= 1

\* close() and then an error event on the same handle, and the next handle
\* is live.
C4_Witness ==
    /\ userClosed # 0 /\ errAfterClose
    /\ Len(socks) > userClosed
    /\ Live(Len(socks))

\* C5: at most one wait is pending, and a close or error event of any handle
\* that comes while the guard flag is set schedules no wait, opens no handle
\* and leaves Retry Count alone.
C5_SingleAttempt ==
    /\ [](Len(timers) <= 1)
    /\ [][(connectLock /\ \E h \in Handles : TransportClose(h) \/ TransportError(h))
          => (timers' = timers /\ Len(socks') = Len(socks)
              /\ retryCount' = retryCount)]_vars

\* An error started an attempt; while its wait is pending the replaced
\* handle's close event has come.
C5_Witness ==
    /\ connectLock /\ Len(timers) = 1 /\ timers[1].cause = "error"
    /\ ws # 0 /\ socks[ws].closeFired

\* C6: a wait during which close() was called opens no handle when it
\* resolves.
C6_CloseDuringWait ==
    [][(TimerFires /\ closeInWait) => Len(socks') = Len(socks)]_vars

\* close() was called during the latest wait and that wait has resolved.
C6_Witness ==
    closeInWait /\ timers = <<>> /\ connectLock

\* C7 (as claimed): when the wait of an attempt resolves the guard flag is
\* cleared, whether a handle was opened or the attempt was given up.
C7_LockReleased ==
    [][TimerFires => ~connectLock']_vars

\* C8 (as claimed): with reconnectionAttempts = 0 an attempt started by a
\* close event never opens a handle.
C8_NoSecondAttempt ==
    [][(options.reconnectionAttempts = 0 /\ TimerFires /\ Head(timers).cause = "close")
       => Len(socks') = Len(socks)]_vars

\* C9 (as claimed): with reconnection = false at most one handle is opened.
C9_NoReconnection ==
    ~options.reconnection => Len(socks) <= 1

\* C10: handling an open event leaves Retry Count at 0, and the attempt that
\* starts from Retry Count 0 waits what the constructor's attempt waits.
C10_RetryReset ==
    /\ [][\A h \in Handles : (OpenStep(h) /\ h \in owned) => retryCount' = 0]_vars
    /\ [][(retryCount = 0 /\ WaitScheduled) =>
             timers'[Len(timers')].delay = FreshDelay]_vars

\* A handle opened and closed, and the first reconnection attempt is waiting.
C10_Witness ==
    /\ timers # <<>> /\ timers[1].cause = "close" /\ retryCount = 1
    /\ timers[1].delay = FreshDelay

\* C11 (as claimed): the attempt made by the constructor waits a delay of 0.
C11_FirstDelayZero ==
    [][(TimerFires /\ Head(timers).cause = "construct") => Head(timers).delay = 0]_vars

\* C12: when the current handle delivers an error event, afterwards
\* Close-Requested is false and exactly one connect attempt is pending; a
\* handle that was not CLOSED when it delivered the error has been asked to
\* close with no code and no reason.
C12_ErrorForcesReconnect ==
    [][\A h \in Handles : (TransportError(h) /\ h \in owned) =>
          /\ ~closeCalled'
          /\ connectLock' /\ Len(timers') = 1
          /\ timers'[1].cause = "error"
          /\ socks'[h].readyState # CLOSED =>
                (socks'[h].closeArg = "undefined" /\ socks'[h].readyState = CLOSING)]_vars

\* The caller closed an OPEN handle, the handle then delivered an error, and
\* the attempt the error forced is waiting with Close-Requested cleared.
C12_Witness ==
    /\ userClosed # 0 /\ errAfterClose /\ Len(socks) = userClosed
    /\ ~closeCalled /\ Len(timers) = 1 /\ timers[1].cause = "error"
    /\ socks[ws].closeArg = "undefined"

\* Every payload some handle was given, handle after handle.
RECURSIVE Forwarded(_)
Forwarded(n) ==
    IF n = 0 THEN <<>> ELSE Forwarded(n - 1) \o socks[n].received
NoDuplicates(q) == \A i \in 1..Len(q) : \A j \in 1..Len(q) : q[i] = q[j] => i = j

\* C15: no payload is given to a handle twice (by the same handle or by two
\* handles, a queued payload has not been given to any handle yet), and every
\* payload a handle was given is one send() was called with.
C15_AtMostOnce ==
    /\ NoDuplicates(Forwarded(Len(socks)) \o messageQueue)
    /\ \A i \in 1..Len(Forwarded(Len(socks))) :
          Forwarded(Len(socks))[i] \in 1..sendCount

\* Payloads were forwarded to a first handle and, after a reconnect, others
\* to the second.
C15_Witness ==
    /\ Len(socks) = 2 /\ socks[2].readyState = OPEN
    /\ socks[1].received # <<>> /\ socks[2].received # <<>>

\* The step is an error event delivered to the wrapper.
ErrorHandled == \E h \in Handles : TransportError(h) /\ h \in owned
\* The step is a close event delivered to the wrapper.
CloseHandled == \E h \in Handles : TransportClose(h) /\ h \in owned
\* The step is a call of _connect that finds the guard flag clear.
PassesGuard == ~connectLock /\ connectLock'
\* Retry Count as _connect finds it: _reconnect has reset it after an error.
RetryAtConnect == IF ErrorHandled THEN 0 ELSE retryCount

\* C17 (as claimed): only the handling of an open event lowers Retry Count,
\* and every connect attempt raises it by exactly 1.
C17_RetryOnlyResetByOpen ==
    [][/\ retryCount' < retryCount => \E h \in Handles : OpenStep(h) /\ h \in owned
       /\ WaitScheduled => retryCount' = retryCount + 1]_vars

C20_SendOnlyWhenOpen ==
    /\ [](\A h \in Handles : ~socks[h].sentWhileNotOpen)
    /\ [][(sendCount' = sendCount + 1 /\ ~(ws # 0 /\ socks[ws].readyState = OPEN))
          => /\ socks' = socks
             /\ messageQueue' \in {messageQueue, Append(messageQueue, sendCount')}]_vars

\* One payload was forwarded to an OPEN handle and a later one was queued
\* while the current handle was CLOSING.
C20_Witness ==
    /\ ws # 0 /\ socks[ws].readyState = CLOSING
    /\ socks[ws].received # <<>> /\ messageQueue # <<>>

\* The current handle n has delivered its close event to the wrapper without
\* an error before it, and no later handle exists.
ClosedByTransport(n) ==
    /\ options.reconnectionAttempts >= 1
    /\ Len(socks) = n /\ ws = n /\ socks[n].closeFired
    /\ timers = <<>> \/ timers[1].cause = "close"

\* C19: when the caller never calls close() and the timer callback runs, an
\* OPEN handle that the transport closes without an error is followed by a
\* new handle (reconnectionAttempts >= 1; the model stops at MaxHandles).
C19_ReconnectAfterTransportClose ==
    \A n \in 1..(MaxHandles - 1) : ClosedByTransport(n) ~> (Len(socks) > n)

\* The wait of an attempt started by a close event has resolved and opened
\* the second handle; the caller never called close().
C19_Witness ==
    /\ options.reconnectionAttempts >= 1
    /\ Len(socks) = 2 /\ ws = 2 /\ lastCause = "close"
    /\ socks[1].closeFired /\ ~closeCalled

\* What a dispatch of an event of type t has to invoke: on<t> if set, then
\* the functions registered for t, one call per registration, in order.
Expected(t) ==
    (IF primary[t] # 0 THEN <<[slot |-> "on", type |-> t, fn |-> primary[t]]>> ELSE <<>>)
    \o [i \in 1..Len(listeners[t]) |->
           [slot |-> "listener", type |-> t, fn |-> listeners[t][i]]]

\* C13: an open, close, error or message event delivered by the handle the
\* wrapper listens to invokes on<type> first (if set) and then every function
\* registered for that type, once per registration and in registration order,
\* and nothing else.
C13_DispatchOrder ==
    [][\A h \in Handles : h \in owned =>
          /\ OpenStep(h) => calls' = Expected("open")
          /\ TransportClose(h) => calls' = Expected("close")
          /\ TransportError(h) => calls' = Expected("error")
          /\ TransportMessage(h) => calls' = Expected("message")]_vars

\* A message event invoked onmessage and then a registered listener.
C13_Witness ==
    /\ Len(calls) = 2
    /\ calls[1].slot = "on" /\ calls[1].type = "message"
    /\ calls[2].slot = "listener" /\ calls[2].type = "message"

\* C14 (as claimed): dispatchEvent invokes on<type> first (if set) and then
\* every function registered for the type, in registration order.
C14_DispatchEventOrder ==
    [][\A t \in EventTypes : CallDispatchEvent(t) => calls' = Expected(t)]_vars

\* The step is an event of handle h.
EventOf(h) ==
    TransportOpen(h) \/ TransportMessage(h) \/ TransportError(h) \/ TransportClose(h)

\* C16: the own listeners are bound to no handle but the current one, and to
\* none while a wait is pending; an event of a handle that has been or is
\* being replaced invokes no function of the caller and changes neither
\* Retry Count, the queue, the flags nor the pending waits, and opens nothing.
C16_OnlyCurrentHandleBound ==
    /\ [](owned \subseteq {ws} /\ Cardinality(owned) <= 1)
    /\ [](timers # <<>> => owned = {})
    /\ [][\A h \in Handles : (EventOf(h) /\ (h # ws \/ timers # <<>>)) =>
             /\ calls' = <<>>
             /\ UNCHANGED <<retryCount, messageQueue, timers, connectLock, closeCalled,
                            ws, owned>>
             /\ Len(socks') = Len(socks)]_vars

\* The close event of a handle that an error made the wrapper replace came
\* during the wait, with a close listener registered, and invoked nothing.
C16_Witness ==
    /\ Len(timers) = 1 /\ timers[1].cause = "error"
    /\ ws # 0 /\ socks[ws].closeFired
    /\ listeners["close"] # <<>> /\ calls = <<>>

\* Payloads handed to any handle so far.
ForwardedTotal ==
    LET RECURSIVE Sum(_)
        Sum(h) == IF h = 0 THEN 0 ELSE Len(socks[h].received) + Sum(h - 1)
    IN Sum(Len(socks))

\* _connect returned at line 189, before _removeOwnListeners: the wrapper's
\* listeners stay bound to the handle whose close event called it.
AbandonedByLimit == Abandoned /\ ws # 0 /\ ws \in owned

\* C21: once a connect attempt has been abandoned (Retry Count over
\* reconnectionAttempts, or Close-Requested set when the wait resolved), no
\* step of the caller (send, close, addEventListener, removeEventListener,
\* dispatchEvent) nor of the transport ends the abandonment: no handle is
\* created, no wait is scheduled, no payload reaches a handle, and a send
\* appends its payload to the queue while the queue holds fewer than
\* messageQueueSize payloads and drops it otherwise.
C21_AbandonedIsAbsorbing ==
    [][Abandoned =>
          /\ Abandoned'
          /\ Len(socks') = Len(socks)
          /\ ws' = ws
          /\ \A h \in Handles : socks'[h].received = socks[h].received
          /\ CallSend =>
                messageQueue' = IF Len(messageQueue) < options.messageQueueSize
                                THEN Append(messageQueue, sendCount + 1)
                                ELSE messageQueue
          /\ ~CallSend => messageQueue' = messageQueue]_vars

\* The attempt made by a close event was abandoned at the limit; the caller
\* has made more send() calls than the queue holds, the queue is full, no
\* payload was ever forwarded, and dispatchEvent has just invoked a listener
\* (only dispatchEvent invokes one in an abandoned state).
C21_Witness ==
    /\ AbandonedByLimit
    /\ closeCalled
    /\ sendCount > options.messageQueueSize
    /\ Len(messageQueue) = options.messageQueueSize
    /\ ForwardedTotal = 0
    /\ calls # <<>>

====
